---- MODULE Spec2Model ----
(***************************************************************************)
(* Model of vincent/data.py: the Data container's scalar serializer and    *)
(* its conversion entry points (from_pandas, from_numpy, from_mult_iters,  *)
(* from_iter).  One call is modelled per behaviour: Init draws the entry   *)
(* point and its arguments, the actions execute the body of the call.      *)
(***************************************************************************)
EXTENDS Integers, Sequences, FiniteSets, TLC

VARIABLES
    op,      \* the entry point being called
    inp,     \* the arguments of the call (never modified)
    pc,      \* "start" | "loop" | "done" (returned) | "failed" (raised)
    err,     \* the kind of exception raised, "" if none
    heap,    \* the pandas objects of the call: "data" is the caller's object
    pd_ref,  \* the heap cell the local variable pd_obj refers to
    cname,   \* the name attribute of the container built by the call
    made,    \* whether the container object has been constructed
    values,  \* the values attribute of the container
    acc,     \* the local list under construction (vega_vals, the comprehension)
    i,       \* outer loop position (row / item / sequence), 1-based, next to do
    j,       \* inner loop position (column / element), 1-based, next to do
    order    \* iteration order of the dict being traversed (keys)

vars == <<op, inp, pc, err, heap, pd_ref, cname, made, values, acc, i, j, order>>

(***************************************************************************)
(* Bounds of the model.                                                    *)
(***************************************************************************)
MaxRows == 2
MaxCols == 2
MaxKeys == 3
MaxLen == 2

(***************************************************************************)
(* Python values.  A value carries its type name, whether it is an         *)
(* instance of str, the attributes hasattr() finds among those serialize   *)
(* probes, its text (for strings) and its number n in tenths of a unit     *)
(* (so 25 is 2.5; a time is n tenths of a second since the epoch).  box is *)
(* the native type item() unwraps to.                                      *)
(***************************************************************************)
NumAttrs == {"__float__", "__int__"}

PyStr(s) == [t |-> "str", isstr |-> TRUE, attrs |-> {}, box |-> "", s |-> s, n |-> 0]

PyInt(k) == [t |-> "int", isstr |-> FALSE, attrs |-> NumAttrs, box |-> "", s |-> "", n |-> 10 * k]

PyFloat(tenths) == [t |-> "float", isstr |-> FALSE, attrs |-> NumAttrs, box |-> "", s |-> "", n |-> tenths]

None == [t |-> "NoneType", isstr |-> FALSE, attrs |-> {}, box |-> "", s |-> "", n |-> 0]

NpInt64(k) == [t |-> "int64", isstr |-> FALSE, attrs |-> {"item"} \cup NumAttrs, box |-> "int", s |-> "", n |-> 10 * k]

NpFloat64(tenths) == [t |-> "float64", isstr |-> FALSE, attrs |-> {"item"} \cup NumAttrs, box |-> "float", s |-> "", n |-> tenths]

Timestamp(tenths) == [t |-> "Timestamp", isstr |-> FALSE, attrs |-> {"timetuple"}, box |-> "", s |-> "", n |-> tenths]

\* An object of a user-defined class with an arbitrary set of capabilities.
Obj(isstr, attrs, box, s, tenths) == [t |-> "object", isstr |-> isstr, attrs |-> attrs, box |-> box, s |-> s, n |-> tenths]

isinstance_str(obj) == obj.isstr

hasattr(obj, a) == a \in obj.attrs

\* Python truthiness of the values used as optional arguments.
Truthy(v) == IF v.isstr THEN v.s # "" ELSE IF v.t = "NoneType" THEN FALSE ELSE v.n # 0

\* int(x) of a number: truncation towards zero.
Trunc(tenths) == IF tenths >= 0 THEN tenths \div 10 ELSE -((-tenths) \div 10)

\* obj.timetuple(): the calendar fields down to whole seconds; the fraction
\* of the second is dropped.
timetuple(obj) == obj.n \div 10

\* time.mktime(tuple): seconds since the epoch as a float.
mktime(tt) == PyFloat(10 * tt)

\* int(obj)
int_(obj) == PyInt(Trunc(obj.n))

\* float(obj) scaled the way the time rule scales its result.
float_scaled(obj) == PyFloat(obj.n * 1000)

\* float(obj)
float_(obj) == PyFloat(obj.n)

\* obj.item(): the native scalar a boxed value holds.
item(obj) == IF obj.box = "int" THEN PyInt(Trunc(obj.n))
             ELSE IF obj.box = "str" THEN PyStr(obj.s)
             ELSE PyFloat(obj.n)

\* int * 1000
Times1000(v) == PyInt((v.n \div 10) * 1000)

\* str(obj), as applied to column names.
str_(obj) == IF obj.isstr THEN obj.s
             ELSE IF obj.t \in {"int", "int64"} THEN ToString(obj.n \div 10)
             ELSE IF obj.t = "NoneType" THEN "None"
             ELSE ToString(obj.n \div 10) \o "." \o ToString(obj.n % 10)

Ret(v) == [ok |-> TRUE, val |-> v, err |-> ""]

Raise(e) == [ok |-> FALSE, val |-> None, err |-> e]

\* Data.serialize returning None where no rule applies.
serialize_or_none(obj) ==
    IF isinstance_str(obj) THEN Ret(obj)
    ELSE IF hasattr(obj, "timetuple") THEN Ret(Times1000(int_(mktime(timetuple(obj)))))
    ELSE IF hasattr(obj, "item") THEN Ret(item(obj))
    ELSE IF hasattr(obj, "__float__") THEN Ret(float_(obj))
    ELSE IF hasattr(obj, "__int__") THEN Ret(int_(obj))
    ELSE Ret(None)

\* Data.serialize with the unwrap rule tried before the time rule.
serialize_item_first(obj) ==
    IF isinstance_str(obj) THEN Ret(obj)
    ELSE IF hasattr(obj, "item") THEN Ret(item(obj))
    ELSE IF hasattr(obj, "timetuple") THEN Ret(Times1000(int_(mktime(timetuple(obj)))))
    ELSE IF hasattr(obj, "__float__") THEN Ret(float_(obj))
    ELSE IF hasattr(obj, "__int__") THEN Ret(int_(obj))
    ELSE Raise("LoadError: cannot serialize")

\* Data.serialize
serialize(obj) ==
    IF isinstance_str(obj) THEN Ret(obj)
    ELSE IF hasattr(obj, "timetuple") THEN Ret(Times1000(int_(mktime(timetuple(obj)))))
    ELSE IF hasattr(obj, "item") THEN Ret(item(obj))
    ELSE IF hasattr(obj, "__float__") THEN Ret(float_(obj))
    ELSE IF hasattr(obj, "__int__") THEN Ret(int_(obj))
    ELSE Raise("LoadError: cannot serialize")

(***************************************************************************)
(* pandas objects.  A DataFrame is its index labels, its column names and  *)
(* its rows of cells; a Series is its index labels, its values and its     *)
(* name.  kind "Panel" stands for an object that has an index but is       *)
(* neither a Series nor a DataFrame, kind "list" for one with no index.    *)
(***************************************************************************)
NoFrame == [kind |-> "unallocated", name |-> None, index |-> <<>>, columns |-> <<>>, cells |-> <<>>, vals |-> <<>>]

Refs == {"data", "copy", "sub"}

\* Position of the first occurrence of x in sequence s, 0 if absent.
IndexOf(s, x) == IF \E p \in 1..Len(s) : s[p] = x
                 THEN CHOOSE p \in 1..Len(s) : s[p] = x /\ \A q \in 1..(p - 1) : s[q] # x
                 ELSE 0

\* No copy is taken: the result is the caller's object itself.
copy_alias(h, r) == [heap |-> h, ref |-> r]

\* data.copy(): a new object with the same contents.
copy(h, r) == [heap |-> [h EXCEPT !["copy"] = h[r]], ref |-> "copy"]

\* data[columns] with a list: a new object holding the selected columns
\* (DataFrame) or the selected labels (Series); KeyError if one is missing.
getitem_list(h, r, names) ==
    LET d == h[r]
        axis == IF d.kind = "DataFrame" THEN d.columns ELSE d.index
        pos == [k \in 1..Len(names) |-> IndexOf(axis, names[k])]
        sub == IF d.kind = "DataFrame"
               THEN [d EXCEPT !.columns = names,
                              !.cells = [x \in 1..Len(d.cells) |-> [k \in 1..Len(names) |-> d.cells[x][pos[k]]]]]
               ELSE [d EXCEPT !.index = names,
                              !.vals = [k \in 1..Len(names) |-> d.vals[pos[k]]]]
    IN  IF \E k \in 1..Len(names) : pos[k] = 0
        THEN [ok |-> FALSE, err |-> "KeyError", heap |-> h, ref |-> r]
        ELSE [ok |-> TRUE, err |-> "", heap |-> [h EXCEPT !["sub"] = sub], ref |-> "sub"]

\* pd_obj.index = data[key_on]: the labels of the object pd_obj refers to
\* are replaced by the values of data's column key_on.
set_index(h, r, key) ==
    LET d == h["data"]
        axis == IF d.kind = "DataFrame" THEN d.columns ELSE d.index
        p == IndexOf(axis, PyStr(key))
    IN  IF p = 0 THEN [ok |-> FALSE, err |-> "KeyError", heap |-> h, ref |-> r]
        ELSE IF d.kind # "DataFrame" THEN [ok |-> FALSE, err |-> "TypeError", heap |-> h, ref |-> r]
        ELSE [ok |-> TRUE, err |-> "",
              heap |-> [h EXCEPT ![r].index = [x \in 1..Len(d.cells) |-> d.cells[x][p]]],
              ref |-> r]

\* Python's "a or b".
Or(a, b) == IF Truthy(a) THEN a ELSE b

\* The name given to the container by from_pandas.
pandas_name(data, name) == IF Truthy(name) THEN name ELSE PyStr("table")

\* The col of the records built from a Series.
data_key(data, series_key) == Or(data.name, series_key)

\* A truthy list argument (None and [] are falsy).
ListGiven(l) == ~l.isNone /\ Len(l.list) > 0

Fail(e) ==
    /\ pc' = "failed"
    /\ err' = e

(***************************************************************************)
(* from_pandas, lines 175-191 and the type dispatch of lines 193/202/214.  *)
(***************************************************************************)
FromPandasBegin ==
    /\ op = "from_pandas"
    /\ pc = "start"
    /\ LET data == heap["data"]
           c == copy(heap, "data")
           s == IF ListGiven(inp.columns)
                THEN getitem_list(c.heap, "data", inp.columns.list)
                ELSE [ok |-> TRUE, err |-> "", heap |-> c.heap, ref |-> c.ref]
           k == IF s.ok /\ inp.key_on # "idx"
                THEN set_index(s.heap, s.ref, inp.key_on)
                ELSE s
       IN  IF ~inp.pd
           THEN Fail("LoadError: pandas could not be imported") /\ UNCHANGED <<heap, pd_ref, cname, made, values>>
           ELSE IF data.kind \notin {"Series", "DataFrame", "Panel"}
           THEN Fail("ValueError") /\ UNCHANGED <<heap, pd_ref, cname, made, values>>
           ELSE /\ made' = TRUE
                /\ cname' = pandas_name(data, inp.name)
                /\ heap' = k.heap
                /\ pd_ref' = k.ref
                /\ values' = <<>>
                /\ IF ~k.ok THEN Fail(k.err)
                   ELSE IF k.heap[k.ref].kind \in {"Series", "DataFrame"}
                   THEN pc' = "loop" /\ err' = ""
                   ELSE Fail("ValueError")
    /\ UNCHANGED <<op, inp, acc, i, j, order>>

\* One iteration of the loop of lines 195-200.
FromPandasSeriesItem ==
    /\ op = "from_pandas"
    /\ pc = "loop"
    /\ heap[pd_ref].kind = "Series"
    /\ i <= Len(heap[pd_ref].index)
    /\ LET o == heap[pd_ref]
           si == serialize(o.index[i])
           sv == serialize(o.vals[i])
       IN  IF ~si.ok THEN Fail(si.err) /\ UNCHANGED <<values, i>>
           ELSE IF ~sv.ok THEN Fail(sv.err) /\ UNCHANGED <<values, i>>
           ELSE /\ values' = Append(values, [idx |-> si.val,
                                             col |-> data_key(heap["data"], inp.series_key),
                                             val |-> sv.val])
                /\ i' = i + 1
                /\ UNCHANGED <<pc, err>>
    /\ UNCHANGED <<op, inp, heap, pd_ref, cname, made, acc, j, order>>

\* Positions counted from one.
enumerate_from_one(pos) == pos

\* Line 206: the position enumerate() gives the j-th (column, value) pair.
enumerate_num(pos) == pos - 1

\* One iteration of the inner loop of lines 205-213.
FromPandasFrameItem ==
    /\ op = "from_pandas"
    /\ pc = "loop"
    /\ heap[pd_ref].kind = "DataFrame"
    /\ i <= Len(heap[pd_ref].index)
    /\ j <= Len(heap[pd_ref].columns)
    /\ LET o == heap[pd_ref]
           si == serialize(o.index[i])
           sk == serialize(o.columns[j])
           sv == serialize(o.cells[i][j])
           value == [idx |-> si.val, col |-> sk.val, val |-> sv.val]
           last == j = Len(o.columns)
       IN  IF ~si.ok THEN Fail(si.err) /\ UNCHANGED <<values, i, j>>
           ELSE IF ~sk.ok THEN Fail(sk.err) /\ UNCHANGED <<values, i, j>>
           ELSE IF ~sv.ok THEN Fail(sv.err) /\ UNCHANGED <<values, i, j>>
           ELSE /\ values' = Append(values,
                        IF inp.grouped
                        THEN [idx |-> si.val, col |-> sk.val, val |-> sv.val, group |-> enumerate_num(j)]
                        ELSE value)
                /\ i' = IF last THEN i + 1 ELSE i
                /\ j' = IF last THEN 1 ELSE j + 1
                /\ UNCHANGED <<pc, err>>
    /\ UNCHANGED <<op, inp, heap, pd_ref, cname, made, acc, order>>

\* Line 217, once the loop is exhausted.
FromPandasReturn ==
    /\ op = "from_pandas"
    /\ pc = "loop"
    /\ \/ i > Len(heap[pd_ref].index)
       \/ heap[pd_ref].kind = "DataFrame" /\ Len(heap[pd_ref].columns) = 0
    /\ pc' = "done"
    /\ UNCHANGED <<op, inp, err, heap, pd_ref, cname, made, values, acc, i, j, order>>

(***************************************************************************)
(* from_numpy.                                                             *)
(***************************************************************************)
\* range(n)
range(n) == [k \in 1..n |-> PyInt(k - 1)]

\* dict(pairs): a later pair with the same key replaces an earlier one.
dict_(pairs) ==
    [k \in {pairs[p][1] : p \in 1..Len(pairs)} |->
        pairs[CHOOSE p \in 1..Len(pairs) :
                /\ pairs[p][1] = k
                /\ \A q \in (p + 1)..Len(pairs) : pairs[q][1] # k][2]]

\* zip(a, b): pairs up to the shorter length.
zip(a, b) == [k \in 1..(IF Len(a) <= Len(b) THEN Len(a) ELSE Len(b)) |-> <<a[k], b[k]>>]

\* Line 254: index = index or range(np_obj.shape[0])
numpy_index(index, np_obj) == IF ListGiven(index) THEN index.list ELSE range(np_obj.shape[1])

\* Line 256: columns = map(str, columns)
numpy_columns(columns) == [k \in 1..Len(columns) |-> str_(columns[k])]

\* Line 258: index_key = index_key or cls._default_index_key
numpy_index_key(index_key) == Or(index_key, PyStr("idx")).s

\* Data.__init__: self.name = name if name else 'table'
init_name(name) == IF Truthy(name) THEN name ELSE PyStr("table")

\* Line 251: _assert_is_type('numpy object', np_obj, np.ndarray) passes for
\* an ndarray and raises for anything else.
assert_is_type(np_obj) == np_obj.isarray

\* Lines 248-268: the checks and the construction of the container.
FromNumpyBegin ==
    /\ op = "from_numpy"
    /\ pc = "start"
    /\ LET index == numpy_index(inp.index, inp.np_obj)
           columns == numpy_columns(inp.columns)
       IN  IF ~inp.np
           THEN Fail("LoadError: numpy could not be imported") /\ UNCHANGED <<made, cname>>
           ELSE IF ~assert_is_type(inp.np_obj)
           THEN Fail("ValueError") /\ UNCHANGED <<made, cname>>
           ELSE IF Len(index) # inp.np_obj.shape[1]
           THEN Fail("LoadError: length of index") /\ UNCHANGED <<made, cname>>
           ELSE IF Len(columns) # inp.np_obj.shape[2]
           THEN Fail("LoadError: length of columns") /\ UNCHANGED <<made, cname>>
           ELSE /\ made' = TRUE
                /\ cname' = init_name(inp.name)
                /\ pc' = "loop"
                /\ err' = ""
    /\ UNCHANGED <<op, inp, heap, pd_ref, values, acc, i, j, order>>

\* One element of the comprehension of lines 269-272.
FromNumpyRow ==
    /\ op = "from_numpy"
    /\ pc = "loop"
    /\ LET index == numpy_index(inp.index, inp.np_obj)
           columns == numpy_columns(inp.columns)
           index_key == numpy_index_key(inp.index_key)
           rows == zip(index, inp.np_obj.rows)
       IN  /\ i <= Len(rows)
           /\ LET si == serialize(rows[i][1])
              IN  IF ~si.ok THEN Fail(si.err) /\ UNCHANGED <<acc, i>>
                  ELSE /\ acc' = Append(acc, dict_(<<<<index_key, si.val>>>> \o zip(columns, rows[i][2])))
                       /\ i' = i + 1
                       /\ UNCHANGED <<pc, err>>
    /\ UNCHANGED <<op, inp, heap, pd_ref, cname, made, values, j, order>>

\* The assignment to data.values and line 274.
FromNumpyReturn ==
    /\ op = "from_numpy"
    /\ pc = "loop"
    /\ i > Len(zip(numpy_index(inp.index, inp.np_obj), inp.np_obj.rows))
    /\ values' = acc
    /\ pc' = "done"
    /\ UNCHANGED <<op, inp, err, heap, pd_ref, cname, made, acc, i, j, order>>

(***************************************************************************)
(* from_mult_iters.  kwargs is the sequence of the keyword arguments in    *)
(* the order the caller wrote them; the dict built from them is iterated   *)
(* in an order the interpreter chooses.                                    *)
(***************************************************************************)
Keys(kwargs) == {kwargs[p].k : p \in 1..Len(kwargs)}

Get(kwargs, key) == kwargs[CHOOSE p \in 1..Len(kwargs) : kwargs[p].k = key].v

\* Line 304
lengths(kwargs) == {Len(kwargs[p].v) : p \in 1..Len(kwargs)}

\* The orders in which a dict with these keys can be iterated.
Perms(S) == {f \in [1..Cardinality(S) -> S] : \A a, b \in 1..Cardinality(S) : a # b => f[a] # f[b]}

iteritems(S) == Perms(S)

\* The index reference checked before the lengths.
mult_iters_error_idx_first(idx, kwargs) ==
    IF ~Truthy(idx) THEN "ValueError: index reference"
    ELSE IF Cardinality(lengths(kwargs)) # 1 THEN "ValueError: same length"
    ELSE IF idx.s \notin Keys(kwargs) THEN "KeyError"
    ELSE ""

\* Lines 304-312: the exception raised before the loop, "" if none.
mult_iters_error(idx, kwargs) ==
    IF Cardinality(lengths(kwargs)) # 1 THEN "ValueError: same length"
    ELSE IF ~Truthy(idx) THEN "ValueError: index reference"
    ELSE IF idx.s \notin Keys(kwargs) THEN "KeyError"
    ELSE ""

\* The index sequence read but left in kwargs.
pop_keys_kept(kwargs, idx) == Keys(kwargs)

\* Line 312: the keys left in kwargs by kwargs.pop(idx).
pop_keys(kwargs, idx) == Keys(kwargs) \ {idx.s}

\* Lines 301-313
FromMultItersBegin ==
    /\ op = "from_mult_iters"
    /\ pc = "start"
    /\ IF mult_iters_error(inp.idx, inp.kwargs) # ""
       THEN Fail(mult_iters_error(inp.idx, inp.kwargs)) /\ UNCHANGED order
       ELSE /\ order' \in iteritems(pop_keys(inp.kwargs, inp.idx))
            /\ pc' = "loop"
            /\ err' = ""
    /\ UNCHANGED <<op, inp, heap, pd_ref, cname, made, values, acc, i, j>>

\* One iteration of the inner loop of lines 315-320.
FromMultItersItem ==
    /\ op = "from_mult_iters"
    /\ pc = "loop"
    /\ i <= Len(order)
    /\ LET index == Get(inp.kwargs, inp.idx.s)
           v == Get(inp.kwargs, order[i])
           pairs == zip(index, v)
       IN  /\ j <= Len(pairs)
           /\ acc' = Append(acc, [idx |-> pairs[j][1], col |-> PyStr(order[i]), val |-> pairs[j][2]])
           /\ i' = IF j = Len(pairs) THEN i + 1 ELSE i
           /\ j' = IF j = Len(pairs) THEN 1 ELSE j + 1
    /\ UNCHANGED <<op, inp, pc, err, heap, pd_ref, cname, made, values, order>>

\* Line 322
FromMultItersReturn ==
    /\ op = "from_mult_iters"
    /\ pc = "loop"
    /\ \/ i > Len(order)
       \/ lengths(inp.kwargs) = {0}
    /\ made' = TRUE
    /\ cname' = init_name(inp.name)
    /\ values' = acc
    /\ pc' = "done"
    /\ UNCHANGED <<op, inp, err, heap, pd_ref, acc, i, j, order>>

(***************************************************************************)
(* from_iter.  data is its items: for a list or tuple the elements, for a  *)
(* dict the (key, value) pairs.                                            *)
(***************************************************************************)
\* Line 343: {x: y for x, y in enumerate(data)}
enumerate_dict(data) ==
    IF data.kind \in {"list", "tuple"}
    THEN [kind |-> "dict", items |-> [k \in 1..Len(data.items) |-> [k |-> PyInt(k - 1), v |-> data.items[k].v]]]
    ELSE data

FromIter ==
    /\ op = "from_iter"
    /\ pc = "start"
    /\ LET data == enumerate_dict(inp.data)
       IN  IF data.kind # "dict"
           THEN Fail("AttributeError") /\ UNCHANGED <<made, cname, values, order>>
           ELSE /\ order' \in iteritems(1..Len(data.items))
                /\ values' = [k \in 1..Len(data.items) |->
                                [idx |-> data.items[order'[k]].k, col |-> PyStr("data"), val |-> data.items[order'[k]].v]]
                /\ made' = TRUE
                /\ cname' = init_name(inp.name)
                /\ pc' = "done"
                /\ err' = ""
    /\ UNCHANGED <<op, inp, heap, pd_ref, acc, i, j>>

(***************************************************************************)
(* A direct call of Data.serialize.                                        *)
(***************************************************************************)
Serialize ==
    /\ op = "serialize"
    /\ pc = "start"
    /\ LET r == serialize(inp.obj)
       IN  IF r.ok
           THEN pc' = "done" /\ err' = "" /\ values' = <<r.val>>
           ELSE Fail(r.err) /\ UNCHANGED values
    /\ UNCHANGED <<op, inp, heap, pd_ref, cname, made, acc, i, j, order>>

(***************************************************************************)
(* The calls explored: the arguments each entry point is given.            *)
(***************************************************************************)
AllAttrs == {"timetuple", "item", "__float__", "__int__"}

\* Numbers in tenths: -1.5, 0, 2.5, 3.
SampleTenths == {-15, 0, 25, 30}

Natives == {PyStr("a"), PyStr("")} \cup {PyInt(k) : k \in {-2, 0, 3}} \cup {PyFloat(n) : n \in SampleTenths}

SerializeArgs ==
    Natives
    \cup {None, NpInt64(4), NpFloat64(25), Timestamp(15), Timestamp(-15)}
    \cup {Obj(isstr, attrs, box, IF isstr THEN "abc" ELSE "", n) :
            isstr \in BOOLEAN, attrs \in SUBSET AllAttrs, box \in {"int", "float"}, n \in SampleTenths}

NoList == [isNone |-> TRUE, list |-> <<>>]

List(l) == [isNone |-> FALSE, list |-> l]

ColName(style, c) == IF style = "str" THEN PyStr("c" \o ToString(c)) ELSE PyInt(c - 1)

IdxLabel(style, r) == IF style = "int" THEN NpInt64(r - 1) ELSE Timestamp(10 * r + 5)

\* A DataFrame of R rows and C columns whose cells are the distinct numbers
\* 1.5, 2.5, ... in row-major order, cell number bad (if any) being None.
MkFrame(R, C, colstyle, idxstyle, bad) ==
    [kind |-> "DataFrame", name |-> None,
     index |-> [r \in 1..R |-> IdxLabel(idxstyle, r)],
     columns |-> [c \in 1..C |-> ColName(colstyle, c)],
     cells |-> [r \in 1..R |-> [c \in 1..C |->
                  IF (r - 1) * C + c = bad THEN None ELSE NpFloat64(10 * ((r - 1) * C + c) + 5)]],
     vals |-> <<>>]

MkSeries(N, nm, idxstyle, bad) ==
    [kind |-> "Series", name |-> nm,
     index |-> [r \in 1..N |-> IdxLabel(idxstyle, r)],
     columns |-> <<>>, cells |-> <<>>,
     vals |-> [r \in 1..N |-> IF r = bad THEN None ELSE NpFloat64(10 * r + 5)]]

Frames == {MkFrame(R, C, cs, is, bad) :
             R \in 0..MaxRows, C \in 0..MaxCols, cs \in {"str", "int"}, is \in {"int", "time"},
             bad \in 0..(MaxRows * MaxCols)}

SeriesSet == {MkSeries(N, nm, is, bad) :
                N \in 0..MaxRows, nm \in {None, PyStr("s")}, is \in {"int", "time"}, bad \in 0..MaxRows}

OtherObjects == {[NoFrame EXCEPT !.kind = "Panel"], [NoFrame EXCEPT !.kind = "list"]}

ColumnArgs == {NoList, List(<<>>), List(<<PyStr("c1")>>), List(<<PyStr("c2"), PyStr("c1")>>), List(<<PyStr("zz")>>)}

PandasArgs ==
    {[data |-> d, columns |-> cols, key_on |-> key, name |-> nm, series_key |-> PyStr("data"),
      grouped |-> g, pd |-> TRUE] :
        d \in Frames, cols \in ColumnArgs, key \in {"idx", "c1", "zz"},
        nm \in {None, PyStr("n")}, g \in BOOLEAN}
    \cup
    {[data |-> d, columns |-> NoList, key_on |-> key, name |-> nm, series_key |-> sk,
      grouped |-> FALSE, pd |-> TRUE] :
        d \in SeriesSet, key \in {"idx", "c1"}, nm \in {None, PyStr(""), PyStr("n")},
        sk \in {PyStr("data"), PyStr("x"), None}}
    \cup
    {[data |-> d, columns |-> NoList, key_on |-> "idx", name |-> None, series_key |-> PyStr("data"),
      grouped |-> FALSE, pd |-> avail] :
        d \in OtherObjects \cup {MkSeries(1, None, "int", 0)}, avail \in BOOLEAN}

\* The array: its shape and the rows tolist() gives.
MkArray(R, C) ==
    [isarray |-> TRUE, shape |-> <<R, C>>,
     rows |-> [r \in 1..R |-> [c \in 1..C |-> PyFloat(10 * ((r - 1) * C + c))]]]

NotAnArray == [isarray |-> FALSE, shape |-> <<0, 0>>, rows |-> <<>>]

NumpyColumns ==
    {[c \in 1..L |->
        IF pat = "distinct" THEN PyStr("a" \o ToString(c))
        ELSE IF pat = "repeat" THEN PyStr("a")
        ELSE IF pat = "index" THEN (IF c = 1 THEN PyStr("idx") ELSE PyStr("a" \o ToString(c)))
        ELSE PyInt(c)] :
        L \in 0..(MaxCols + 1), pat \in {"distinct", "repeat", "index", "ints"}}

NumpyIndex ==
    {NoList} \cup
    {List([r \in 1..L |-> IF r = bad THEN None ELSE PyInt(6 + r)]) :
        L \in 0..(MaxRows + 1), bad \in 0..(MaxRows + 1)}

NumpyArgs ==
    {[np_obj |-> MkArray(R, C), name |-> nm, columns |-> cols, index |-> idx, index_key |-> ik,
      np |-> TRUE] :
        R \in 0..MaxRows, C \in 0..MaxCols, nm \in {None, PyStr("n")}, cols \in NumpyColumns,
        idx \in NumpyIndex, ik \in {None, PyStr("k")}}
    \cup
    {[np_obj |-> a, name |-> PyStr("n"), columns |-> <<>>, index |-> NoList, index_key |-> None,
      np |-> avail] :
        a \in {NotAnArray, MkArray(0, 0)}, avail \in BOOLEAN}

KeyName(k) == "k" \o ToString(k)

\* Element p of the sequence passed as keyword k: a number that tells k and
\* p, except that the first element of k2 is None.
Elem(k, p) == IF k = 2 /\ p = 1 THEN None ELSE PyInt(10 * k + p)

\* Keyword arguments: the keys in the order written, each with a sequence of
\* length L, except key number odd (if any) whose length is oddLen.
MkKwargs(ks, L, odd, oddLen) ==
    [p \in 1..Len(ks) |->
        [k |-> KeyName(ks[p]),
         v |-> [e \in 1..(IF p = odd THEN oddLen ELSE L) |-> Elem(ks[p], e)]]]

KeySeqs == UNION {Perms(S) : S \in SUBSET (1..MaxKeys)}

KwargsSet == {MkKwargs(ks, L, odd, oddLen) :
                ks \in KeySeqs, L \in 0..MaxLen, odd \in 0..MaxKeys, oddLen \in 0..MaxLen}

MultItersArgs ==
    {[name |-> nm, idx |-> ix, kwargs |-> kw] :
        nm \in {None, PyStr("n")},
        ix \in {None, PyStr(""), PyStr("k1"), PyStr("k2"), PyStr("zz")},
        kw \in KwargsSet}

IterArgs ==
    {[name |-> nm, data |-> [kind |-> kind, items |-> [p \in 1..L |->
                                [k |-> PyStr(KeyName(p)), v |-> Elem(1, p)]]]] :
        nm \in {None, PyStr("n")}, kind \in {"list", "tuple", "dict", "set"}, L \in 0..MaxLen}

Init ==
    /\ \/ op = "serialize" /\ inp \in {[obj |-> o] : o \in SerializeArgs}
       \/ op = "from_pandas" /\ inp \in PandasArgs
       \/ op = "from_numpy" /\ inp \in NumpyArgs
       \/ op = "from_mult_iters" /\ inp \in MultItersArgs
       \/ op = "from_iter" /\ inp \in IterArgs
    /\ pc = "start"
    /\ err = ""
    /\ heap = [r \in Refs |-> IF r = "data" /\ op = "from_pandas" THEN inp.data ELSE NoFrame]
    /\ pd_ref = "data"
    /\ cname = None
    /\ made = FALSE
    /\ values = <<>>
    /\ acc = <<>>
    /\ i = 1
    /\ j = 1
    /\ order = <<>>

Next ==
    \/ Serialize
    \/ FromPandasBegin
    \/ FromPandasSeriesItem
    \/ FromPandasFrameItem
    \/ FromPandasReturn
    \/ FromNumpyBegin
    \/ FromNumpyRow
    \/ FromNumpyReturn
    \/ FromMultItersBegin
    \/ FromMultItersItem
    \/ FromMultItersReturn
    \/ FromIter

Spec == Init /\ [][Next]_vars

(***************************************************************************)
(* Properties.                                                             *)
(***************************************************************************)
Finished == pc \in {"done", "failed"}

\* The coercion rules of serialize a value matches, numbered in the order
\* of the documentation: 1 text, 2 calendar/time decomposition, 3 scalar
\* unwrap, 4 float-convertible, 5 integer-convertible.
Matches(obj) ==
    {r \in 1..5 :
        \/ r = 1 /\ obj.isstr
        \/ r = 2 /\ "timetuple" \in obj.attrs
        \/ r = 3 /\ "item" \in obj.attrs
        \/ r = 4 /\ "__float__" \in obj.attrs
        \/ r = 5 /\ "__int__" \in obj.attrs}

\* What rule r alone makes of a value.
RuleResult(r, obj) ==
    IF r = 1 THEN obj
    ELSE IF r = 2 THEN PyInt(Trunc(mktime(timetuple(obj)).n) * 1000)
    ELSE IF r = 3 THEN item(obj)
    ELSE IF r = 4 THEN PyFloat(obj.n)
    ELSE PyInt(Trunc(obj.n))

Earliest(S) == CHOOSE r \in S : \A q \in S : r <= q

\* C1: a call of serialize returns the result of the earliest of the five
\* rules its argument matches (text unchanged, time as integer seconds
\* times 1000, unwrapped scalar, float, integer), and raises LoadError
\* without returning a value exactly when the argument matches no rule.
C1_Precedence ==
    (op = "serialize" /\ Finished) =>
        IF Matches(inp.obj) = {}
        THEN pc = "failed" /\ err = "LoadError: cannot serialize" /\ values = <<>>
        ELSE pc = "done" /\ values = <<RuleResult(Earliest(Matches(inp.obj)), inp.obj)>>

\* A value matching the time, unwrap, float and integer rules at once has
\* been serialized by the time rule.
C1_Witness ==
    /\ op = "serialize"
    /\ pc = "done"
    /\ Matches(inp.obj) = {2, 3, 4, 5}
    /\ inp.obj.n = 25
    /\ values = <<PyInt(2000)>>

IsJsonSafe(x) == x.t \in {"str", "int", "float"}

FrameCall == op = "from_pandas" /\ inp.data.kind = "DataFrame"

SeriesCall == op = "from_pandas" /\ inp.data.kind = "Series"

\* The label of row r as the records see it: the input's own label, or the
\* value of column key_on in that row when key_on is not 'idx'.
RowLabel(r) ==
    IF inp.key_on = "idx" THEN inp.data.index[r]
    ELSE inp.data.cells[r][IndexOf(inp.data.columns, PyStr(inp.key_on))]

\* A call on a DataFrame that no check rejects: pandas is there, key_on is
\* 'idx' or one of the columns, and serialize accepts every row label,
\* column name and cell.
ValidFrameCall ==
    /\ FrameCall
    /\ inp.pd
    /\ inp.key_on = "idx" \/ IndexOf(inp.data.columns, PyStr(inp.key_on)) # 0
    /\ \A r \in 1..Len(inp.data.index) : Matches(RowLabel(r)) # {}
    /\ \A c \in 1..Len(inp.data.columns) : Matches(inp.data.columns[c]) # {}
    /\ \A r \in 1..Len(inp.data.index) : \A c \in 1..Len(inp.data.columns) :
          Matches(inp.data.cells[r][c]) # {}

C3_SeriesKey ==
    (SeriesCall /\ pc = "done") =>
        /\ Len(values) = Len(inp.data.index)
        /\ \A k \in 1..Len(values) :
             /\ values[k].idx = serialize(inp.data.index[k]).val
             /\ values[k].val = serialize(inp.data.vals[k]).val
             /\ values[k].col = inp.series_key

\* C7: the caller's pandas object has the index, columns and cells it had
\* before the call, at every point of the call and after it, returned or
\* failed.
C7_InputUnchanged ==
    op = "from_pandas" => heap["data"] = inp.data

\* A table has been re-indexed by one of its columns, no column subset
\* given: the working object carries the new labels.
C7_Witness ==
    /\ FrameCall
    /\ pc = "done"
    /\ ~ListGiven(inp.columns)
    /\ inp.key_on # "idx"
    /\ Len(inp.data.index) = 2
    /\ heap[pd_ref].index # inp.data.index
    /\ heap[pd_ref].index = <<inp.data.cells[1][1], inp.data.cells[2][1]>>

\* C9: the container from_pandas returns is named after the name argument
\* if one is given; with name None it is named after the name of the
\* pandas object when it has one, and 'table' otherwise.
C9_DefaultName ==
    (op = "from_pandas" /\ pc = "done") =>
        /\ Truthy(inp.name) => cname = inp.name
        /\ inp.name = None =>
             cname = (IF Truthy(inp.data.name) THEN inp.data.name ELSE PyStr("table"))

NumpyCall == op = "from_numpy" /\ inp.np /\ inp.np_obj.isarray

\* C4: when an index list is supplied (an empty one included), from_numpy
\* fails with a length-mismatch error if and only if the number of index
\* labels differs from the row count or the number of column names differs
\* from the column count; otherwise it returns rowCount mappings, each with
\* the index field holding serialize(label) and columnCount + 1 keys.
\* (Stated for index lists whose labels serialize accepts.)
C4_LengthMismatch ==
    (/\ NumpyCall
     /\ ~inp.index.isNone
     /\ \A r \in 1..Len(inp.index.list) : Matches(inp.index.list[r]) # {}
     /\ Finished) =>
        LET R == inp.np_obj.shape[1]
            C == inp.np_obj.shape[2]
            mismatch == Len(inp.index.list) # R \/ Len(inp.columns) # C
        IN  /\ (pc = "failed" /\ err \in {"LoadError: length of index", "LoadError: length of columns"})
                 <=> mismatch
            /\ ~mismatch =>
                 /\ pc = "done"
                 /\ Len(values) = R
                 /\ \A r \in 1..R :
                      /\ Cardinality(DOMAIN values[r]) = C + 1
                      /\ values[r][numpy_index_key(inp.index_key)] = serialize(inp.index.list[r]).val

MultCall == op = "from_mult_iters"

OneLength == Cardinality(lengths(inp.kwargs)) = 1

\* The common length of the sequences (when they have one).
CommonLength == CHOOSE L \in lengths(inp.kwargs) : TRUE

\* C5 as stated: from_mult_iters fails with the index-reference error if and
\* only if no idx is supplied, with the same-length error if and only if
\* the sequences do not share one common length, and in every other case
\* returns K*L records.
C5_Original ==
    (MultCall /\ Finished) =>
        /\ (pc = "failed" /\ err = "ValueError: index reference") <=> ~Truthy(inp.idx)
        /\ (pc = "failed" /\ err = "ValueError: same length") <=> ~OneLength
        /\ (Truthy(inp.idx) /\ OneLength) =>
             /\ pc = "done"
             /\ Len(values) = (Len(inp.kwargs) - 1) * CommonLength

\* C5 amended: from_mult_iters fails with the same-length error if and only
\* if the lengths of the supplied sequences are not exactly one value (no
\* sequence at all included); with the index-reference error if and only if
\* they are one value and no idx is supplied; with KeyError if and only if
\* they are one value and the idx supplied names none of the sequences; in
\* every other case it returns exactly K*L records.
C5_Amended ==
    (MultCall /\ Finished) =>
        /\ (pc = "failed" /\ err = "ValueError: same length") <=> ~OneLength
        /\ (pc = "failed" /\ err = "ValueError: index reference") <=> (OneLength /\ ~Truthy(inp.idx))
        /\ (pc = "failed" /\ err = "KeyError")
             <=> (OneLength /\ Truthy(inp.idx) /\ inp.idx.s \notin Keys(inp.kwargs))
        /\ (OneLength /\ Truthy(inp.idx) /\ inp.idx.s \in Keys(inp.kwargs)) =>
             /\ pc = "done"
             /\ Len(values) = (Len(inp.kwargs) - 1) * CommonLength

\* Two sequences of length 2 besides the index have been converted into
\* four records.
C5_Witness ==
    /\ MultCall
    /\ pc = "done"
    /\ Len(inp.kwargs) = 3
    /\ CommonLength = 2
    /\ Len(values) = 4

SerializationError == "LoadError: cannot serialize"

\* C6 as stated: when a call of an entry point fails, whatever the error,
\* no record has been built or appended and no container is returned.
C6_Original ==
    (op # "serialize" /\ pc = "failed") => (values = <<>> /\ acc = <<>>)

\* The labels and values a from_pandas call has passed to serialize when
\* it returns.
Serialized ==
    LET o == heap[pd_ref]
    IN  IF o.kind = "Series"
        THEN {o.index[k] : k \in 1..Len(o.index)} \cup {o.vals[k] : k \in 1..Len(o.vals)}
        ELSE IF Len(o.columns) = 0 THEN {}
        ELSE {o.index[k] : k \in 1..Len(o.index)}
             \cup {o.columns[k] : k \in 1..Len(o.columns)}
             \cup {o.cells[r][c] : r \in 1..Len(o.index), c \in 1..Len(o.columns)}

\* C6 amended: every error other than a serialization failure (shape
\* mismatch, missing index reference, unsupported source type, missing
\* library, unknown column) is raised before any record has been built or
\* appended; a serialization failure can be raised after earlier records
\* were built; a call that has failed returns nothing, and a container is
\* returned only if every label and value passed to serialize was accepted.
C6_Amended ==
    /\ (op # "serialize" /\ pc = "failed" /\ err # SerializationError) =>
          (values = <<>> /\ acc = <<>>)
    /\ (op # "serialize" /\ pc = "failed") => ~ENABLED Next
    /\ (op = "from_pandas" /\ pc = "done") => \A x \in Serialized : Matches(x) # {}
    /\ (op = "from_numpy" /\ pc = "done") =>
          \A r \in 1..inp.np_obj.shape[1] :
              Matches(numpy_index(inp.index, inp.np_obj)[r]) # {}

\* A conversion of a table has failed on a cell that cannot be serialized
\* after records of earlier cells were appended.
C6_Witness ==
    /\ FrameCall
    /\ pc = "failed"
    /\ err = SerializationError
    /\ Len(values) >= 1

\* The records of the sequences named by ks, in that order, sequence by
\* sequence and position by position, with raw index and raw element.
ExpectedRecords(ks) ==
    LET L == CommonLength
        index == Get(inp.kwargs, inp.idx.s)
    IN  [q \in 1..(Len(ks) * L) |->
            LET p == ((q - 1) \div L) + 1
                e == ((q - 1) % L) + 1
            IN  [idx |-> index[e], col |-> PyStr(ks[p]), val |-> Get(inp.kwargs, ks[p])[e]]]

\* The names supplied, in the order supplied, without the index name.
SuppliedOrder ==
    LET keep == {p \in 1..Len(inp.kwargs) : inp.kwargs[p].k # inp.idx.s}
        nth(m) == CHOOSE p \in keep : Cardinality({q \in keep : q < p}) = m - 1
    IN  [m \in 1..Cardinality(keep) |-> inp.kwargs[nth(m)].k]

\* C10 as stated: the records of a successful from_mult_iters are those of
\* the sequences other than the index, in the order the names were
\* supplied, each sequence's records contiguous and by increasing position,
\* with the raw index element as idx and the raw element as val.
C10_Original ==
    (MultCall /\ pc = "done") => values = ExpectedRecords(SuppliedOrder)

\* C10 amended: the same, except that the sequences are taken in the
\* iteration order of the keyword dict, which is some order of the
\* remaining names and need not be the order in which they were supplied.
C10_Amended ==
    (MultCall /\ pc = "done") =>
        \E ks \in Perms(Keys(inp.kwargs) \ {inp.idx.s}) : values = ExpectedRecords(ks)

\* Two sequences besides the index have been converted, one of them
\* holding a None that serialize would reject, in the order opposite to
\* the one supplied.
C10_Witness ==
    /\ MultCall
    /\ pc = "done"
    /\ inp.idx.s = "k1"
    /\ SuppliedOrder = <<"k2", "k3">>
    /\ values = ExpectedRecords(<<"k3", "k2">>)
    /\ Len(values) = 4
    /\ values[3].val = None

====
